---- MODULE Spec2Model ----
(***************************************************************************)
(* A model of sos-collector: profile resolution (determine_cluster),       *)
(* node-list reconciliation (format_node_list, get_nodes,                  *)
(* reduce_node_list) and the two-phase collection (collect, _collect,      *)
(* _connect_to_node), and the cluster options (_parse_options,             *)
(* _validate_option, Cluster.get_option).                                  *)
(*                                                                         *)
(* Four specifications share the module, one per component:                *)
(*   SpecOptions  SosCollector._parse_options and Cluster.get_option       *)
(*   SpecResolve  SosCollector.determine_cluster                           *)
(*   SpecNodes    Cluster.format_node_list and SosCollector.get_nodes      *)
(*   SpecCollect  SosCollector.collect and its worker tasks                *)
(* Python strings are modelled as sequences of one-character strings so    *)
(* that strip, startswith, split and the character tests are computed.     *)
(***************************************************************************)
EXTENDS Integers, Sequences, FiniteSets, TLC

VARIABLES
    \* ---- determine_cluster
    clusters,        \* self.clusters.values(): the registered profiles, in order
    enabled,         \* the profiles whose check_enabled() returns True on the master
    checks,          \* the local worklist `checks`
    ci,              \* position of the outer loop in clusters
    cj,              \* position of the inner loop in checks
    cluster,         \* the local `cluster` (the candidate / final selection)
    rpc,             \* where determine_cluster is
    probes,          \* the check_enabled() calls made so far, in order
    bound,           \* the profiles whose .master has been set
    config_cluster,  \* self.config['cluster']
    config_cluster_type, \* self.config['cluster_type']
    \* ---- format_node_list, get_nodes, reduce_node_list
    raw,             \* what the profile's get_nodes() does: returns a list, a str, None, or raises
    has_cluster,     \* self.config['cluster'] / ['cluster_type'] is set
    config_nodes,    \* self.config['nodes'], the user's patterns
    config_master,   \* self.config['master'] (None: no master designated)
    config_no_local, \* self.config['no_local']
    node_list,       \* self.node_list (None: the attribute holds None)
    fmt_result,      \* outcome of the last format_node_list() call
    npc,             \* where prep / get_nodes is
    n_exit,          \* exit status once the process has exited
    hostlen,         \* self.config['hostlen']
    user_nodes,      \* the --nodes list as the user gave it
    first_list,      \* self.node_list as the first get_nodes() call left it
    \* ---- collect, _connect_to_node, _collect
    threads,         \* self.config['threads']
    master_connected,\* self.master.connected
    m_hostname,      \* self.master.hostname
    c_local,         \* the addresses whose SosNode has .local set
    has_extra,       \* the profile defines run_extra_cmd
    client_list,     \* self.client_list, the clients by address
    conn,            \* connect phase: the state of each node's task
    conn_queue,      \* connect phase: the tasks no worker has taken yet
    coll,            \* collect phase: the state of each client's task
    coll_queue,      \* collect phase: the tasks no worker has taken yet
    tmp,             \* per collect task: the value of self.retrieved it loaded
    retrieved,       \* self.retrieved
    retrieved_flag,  \* the clients whose .retrieved is True
    sos_calls,       \* per client: the sosreport() calls made on it
    closed,          \* the sessions close_ssh_session() was called on
    report_num,      \* self.report_num
    extra_calls,     \* the calls of the profile's _run_extra_cmd()
    archive_created, \* create_sos_archive wrote the archive
    cpc,             \* where collect is
    interrupted,     \* a KeyboardInterrupt reached collect's try block
    c_exit,          \* exit status once the process has exited (-1: running)
    established,     \* the nodes whose SosNode() came up connected
    attempts,        \* per node: the _connect_to_node calls started on it
    extra_via,       \* the sessions collect_extra_cmd() was called on
    \* ---- _parse_options, _validate_option, get_option
    cluster_options, \* self.config['cluster_options'], the overrides of the CLI
    options,         \* per registered profile: its .options list
    oi,              \* position of _parse_options in cluster_options
    opc,             \* where __init__ is
    o_exit,          \* exit status once the process has exited (-1: running)
    sessions,        \* the sessions prep has opened
    detected,        \* prep has chosen the profile
    observed,        \* the get_option() call a profile made, and its result
    \* ---- create_cluster_archive / cleanup
    tmp_dir_created, \* self.config['tmp_dir_created']
    dir_exists,      \* the directory self.config['tmp_dir'] exists
    tmp_dir,         \* the names of the files in self.config['tmp_dir']
    archived_dir,    \* what tmp_dir held when the archive was written
    listing,         \* what is left of os.listdir(tmp_dir) in cleanup's loop
    archive,         \* self.archive is set
    kpc,             \* where create_cluster_archive is
    k_exit           \* the status create_cluster_archive exited with, or -1

cvars == <<threads, master_connected, m_hostname, c_local, has_extra,
           client_list, conn, conn_queue, coll, coll_queue, tmp, retrieved,
           retrieved_flag, sos_calls, closed, report_num, extra_calls,
           archive_created, cpc, interrupted, c_exit, established, attempts,
           extra_via>>

nvars == <<raw, has_cluster, config_nodes, config_master, config_no_local,
           node_list, fmt_result, npc, n_exit, hostlen, user_nodes,
           first_list>>

rvars == <<clusters, enabled, checks, ci, cj, cluster, rpc, probes, bound,
           config_cluster, config_cluster_type>>

ovars == <<cluster_options, options, oi, opc, o_exit, sessions, detected,
           observed>>

kvars == <<tmp_dir_created, dir_exists, tmp_dir, archived_dir, listing,
           archive, kpc, k_exit>>

vars == <<rvars, nvars, cvars, ovars, kvars>>

None == "None"

----------------------------------------------------------------------------
(* Helpers on sequences and sets                                           *)

Range(s) == {s[i] : i \in 1..Len(s)}

\* every sequence without repetition over S of length at most n
InjSeqs(S, n) ==
    {s \in UNION {[1..k -> S] : k \in 0..n} :
        \A i, j \in 1..Len(s) : i # j => s[i] # s[j]}

\* every ordering of the finite set S
RECURSIVE Perms(_)
Perms(S) ==
    IF S = {} THEN {<<>>}
    ELSE UNION {{<<x>> \o p : p \in Perms(S \ {x})} : x \in S}

\* list.remove(x): drop the first element equal to x (x is present)
RemoveFirst(s, x) ==
    LET i == CHOOSE k \in 1..Len(s) : s[k] = x /\ \A l \in 1..(k-1) : s[l] # x
    IN  [k \in 1..(Len(s)-1) |-> IF k < i THEN s[k] ELSE s[k+1]]

----------------------------------------------------------------------------
(* The profile classes.  Bases gives each class its direct base classes    *)
(* (__bases__); "Cluster" is the abstract base.                            *)

Classes == {"Generic", "Layered", "Deep", "Sibling", "Other"}

Bases(c) ==
    CASE c = "Generic" -> {"Cluster"}
      [] c = "Layered" -> {"Generic"}
      [] c = "Deep"    -> {"Layered"}
      [] c = "Sibling" -> {"Generic"}
      [] c = "Other"   -> {"Cluster"}
      [] OTHER         -> {}

RECURSIVE Ancestors(_)
Ancestors(c) == Bases(c) \cup UNION {Ancestors(b) : b \in Bases(c)}

\* a subclass test that looks at the direct bases only
IsSubclassDirect(x, y) == x = y \/ y \in Bases(x)

\* issubclass(x, y), as Python computes it: reflexive and transitive
IsSubclass(x, y) == x = y \/ y \in Ancestors(x)

\* str(cls.__name__).lower()
LowerName(c) ==
    CASE c = "Generic" -> "generic"
      [] c = "Layered" -> "layered"
      [] c = "Deep"    -> "deep"
      [] c = "Sibling" -> "sibling"
      [] c = "Other"   -> "other"
      [] OTHER         -> c

\* the variables of the other components, at rest
NodesIdle ==
    /\ raw = [kind |-> "none", val |-> <<>>]
    /\ has_cluster = FALSE
    /\ config_nodes = <<>>
    /\ config_master = <<>>
    /\ config_no_local = FALSE
    /\ node_list = <<>>
    /\ fmt_result = [called |-> FALSE, raised |-> FALSE, list |-> <<>>]
    /\ npc = "idle"
    /\ n_exit = -1
    /\ hostlen = 0
    /\ user_nodes = <<>>
    /\ first_list = <<>>

CollectIdle ==
    /\ threads = 1
    /\ master_connected = FALSE
    /\ m_hostname = <<>>
    /\ c_local = {}
    /\ has_extra = FALSE
    /\ client_list = <<>>
    /\ conn = <<>>
    /\ conn_queue = <<>>
    /\ coll = <<>>
    /\ coll_queue = <<>>
    /\ tmp = <<>>
    /\ retrieved = 0
    /\ retrieved_flag = {}
    /\ sos_calls = <<>>
    /\ closed = {}
    /\ report_num = 0
    /\ extra_calls = 0
    /\ archive_created = FALSE
    /\ cpc = "idle"
    /\ interrupted = FALSE
    /\ c_exit = -1
    /\ established = {}
    /\ attempts = <<>>
    /\ extra_via = {}

ResolveIdle ==
    /\ clusters = <<>>
    /\ enabled = {}
    /\ checks = <<>>
    /\ ci = 0
    /\ cj = 0
    /\ cluster = None
    /\ rpc = "idle"
    /\ probes = <<>>
    /\ bound = {}
    /\ config_cluster = None
    /\ config_cluster_type = None

\* no get_option() call has been made
NotAsked == [asked |-> FALSE, profile |-> "", name |-> "",
             value |-> [type |-> "bool", repr |-> <<>>]]

OptionsIdle ==
    /\ cluster_options = <<>>
    /\ options = <<>>
    /\ oi = 0
    /\ opc = "idle"
    /\ o_exit = -1
    /\ sessions = 0
    /\ detected = FALSE
    /\ observed = NotAsked

CleanupIdle ==
    /\ tmp_dir_created = FALSE
    /\ dir_exists = TRUE
    /\ tmp_dir = {}
    /\ archived_dir = {}
    /\ listing = <<>>
    /\ archive = FALSE
    /\ kpc = "idle"
    /\ k_exit = -1

\* the most profiles a registry holds
MaxProfiles == 4

\* position of profile c in the registration order
Pos(c) == CHOOSE i \in 1..Len(clusters) : clusters[i] = c

----------------------------------------------------------------------------
(* SosCollector.determine_cluster, one step per loop iteration             *)

InitResolve ==
    /\ clusters \in InjSeqs(Classes, MaxProfiles)
    /\ enabled \in SUBSET Range(clusters)
    /\ checks = clusters                  \* checks = list(self.clusters.values())
    /\ ci = 1
    /\ cj = 0
    /\ cluster = None
    /\ rpc = "outer"
    /\ probes = <<>>
    /\ bound = {}
    /\ config_cluster = None
    /\ config_cluster_type = None
    /\ NodesIdle
    /\ CollectIdle
    /\ OptionsIdle
    /\ CleanupIdle

\* for cluster in self.clusters.values(): checks.remove(cluster);
\* cluster.master = self.master; if cluster.check_enabled(): ...
OuterStep ==
    /\ rpc = "outer"
    /\ ci <= Len(clusters)
    /\ LET c == clusters[ci] IN
        /\ checks' = RemoveFirst(checks, c)
        /\ bound' = bound \cup {c}
        /\ probes' = Append(probes, c)
        /\ cluster' = c
        /\ IF c \in enabled
              THEN rpc' = "layered" /\ cj' = 1 /\ ci' = ci
              ELSE rpc' = "outer" /\ cj' = cj /\ ci' = ci + 1
    /\ UNCHANGED <<clusters, enabled, config_cluster, config_cluster_type>>
    /\ UNCHANGED <<nvars, cvars, ovars, kvars>>

\* the outer for loop runs out: nothing is assigned
OuterExhausted ==
    /\ rpc = "outer"
    /\ ci > Len(clusters)
    /\ rpc' = "done"
    /\ UNCHANGED <<clusters, enabled, checks, ci, cj, cluster, probes, bound,
                   config_cluster, config_cluster_type>>
    /\ UNCHANGED <<nvars, cvars, ovars, kvars>>

\* for remaining in checks: the issubclass test fails
LayeredSkip ==
    /\ rpc = "layered"
    /\ cj <= Len(checks)
    /\ ~IsSubclass(checks[cj], cluster)
    /\ cj' = cj + 1
    /\ UNCHANGED <<clusters, enabled, checks, ci, cluster, rpc, probes, bound,
                   config_cluster, config_cluster_type>>
    /\ UNCHANGED <<nvars, cvars, ovars, kvars>>

\* a layered probe that goes on scanning after a layered profile matched
LayeredProbeNoBreak ==
    /\ rpc = "layered"
    /\ cj <= Len(checks)
    /\ IsSubclass(checks[cj], cluster)
    /\ LET remaining == checks[cj] IN
        /\ bound' = bound \cup {remaining}
        /\ probes' = Append(probes, remaining)
        /\ cluster' = IF remaining \in enabled THEN remaining ELSE cluster
        /\ rpc' = "layered" /\ cj' = cj + 1
    /\ UNCHANGED <<clusters, enabled, checks, ci, config_cluster,
                   config_cluster_type>>
    /\ UNCHANGED <<nvars, cvars, ovars, kvars>>

\* for remaining in checks: a subclass of the candidate is probed; the first
\* that is enabled replaces the candidate and ends the scan (break)
LayeredProbe ==
    /\ rpc = "layered"
    /\ cj <= Len(checks)
    /\ IsSubclass(checks[cj], cluster)
    /\ LET remaining == checks[cj] IN
        /\ bound' = bound \cup {remaining}
        /\ probes' = Append(probes, remaining)
        /\ IF remaining \in enabled
              THEN cluster' = remaining /\ rpc' = "select" /\ cj' = cj
              ELSE cluster' = cluster /\ rpc' = "layered" /\ cj' = cj + 1
    /\ UNCHANGED <<clusters, enabled, checks, ci, config_cluster,
                   config_cluster_type>>
    /\ UNCHANGED <<nvars, cvars, ovars, kvars>>

\* a selection that does not leave the outer loop
SelectNoBreak ==
    /\ \/ rpc = "select"
       \/ rpc = "layered" /\ cj > Len(checks)
    /\ config_cluster' = cluster
    /\ config_cluster_type' = LowerName(cluster)
    /\ rpc' = "outer"
    /\ ci' = ci + 1
    /\ UNCHANGED <<clusters, enabled, checks, cj, cluster, probes, bound>>
    /\ UNCHANGED <<nvars, cvars, ovars, kvars>>

\* self.config['cluster'] = cluster; self.config['cluster_type'] = name; break
Select ==
    /\ \/ rpc = "select"
       \/ rpc = "layered" /\ cj > Len(checks)
    /\ config_cluster' = cluster
    /\ config_cluster_type' = LowerName(cluster)
    /\ rpc' = "done"
    /\ UNCHANGED <<clusters, enabled, checks, ci, cj, cluster, probes, bound>>
    /\ UNCHANGED <<nvars, cvars, ovars, kvars>>

NextResolve ==
    \/ OuterStep
    \/ OuterExhausted
    \/ LayeredSkip
    \/ LayeredProbe
    \/ Select

SpecResolve == InitResolve /\ [][NextResolve]_vars

----------------------------------------------------------------------------
(* Claims about determine_cluster                                          *)

\* b's class is a proper subtype of a's class
ProperSubtype(b, a) == a \in Ancestors(b)

\* C1: with a base profile a and a profile b whose class is a subtype of a,
\* every other registered profile being disabled: in every registration
\* order, when both test enabled the resolved cluster is b and never a, and
\* when a is enabled and b is disabled the resolved cluster is a.
C1_LayeringPrecedence ==
    rpc = "done" =>
        \A a, b \in Range(clusters) :
            (ProperSubtype(b, a) /\ a \in enabled /\ enabled \subseteq {a, b}) =>
                /\ b \in enabled => (config_cluster = b /\ config_cluster # a)
                /\ b \notin enabled => config_cluster = a

\* the base is registered first among three or more profiles, both are
\* enabled, and the layered profile, a subtype of the base two levels down,
\* was probed in the inner scan and won
C1_Witness ==
    /\ rpc = "done"
    /\ \E a, b \in Range(clusters) :
          /\ ProperSubtype(b, a) /\ enabled = {a, b}
          /\ Pos(a) < Pos(b)
          /\ a \notin Bases(b)
          /\ config_cluster = b
          /\ Len(clusters) >= 3

\* C9: when two profiles unrelated by subtyping are the enabled ones,
\* resolution selects the one registered first, wherever the disabled
\* profiles stand.
C9_FirstMatch ==
    rpc = "done" =>
        \A a, b \in Range(clusters) :
            ( /\ a # b /\ ~ProperSubtype(a, b) /\ ~ProperSubtype(b, a)
              /\ enabled = {a, b}
              /\ Pos(a) < Pos(b) ) => config_cluster = a

\* two unrelated enabled profiles with a disabled subtype of the first
\* standing between them
C9_Witness ==
    /\ rpc = "done"
    /\ \E a, b, d \in Range(clusters) :
          /\ a # b /\ ~ProperSubtype(a, b) /\ ~ProperSubtype(b, a)
          /\ enabled = {a, b}
          /\ ProperSubtype(d, a)
          /\ Pos(a) < Pos(d) /\ Pos(d) < Pos(b)
          /\ config_cluster = a

\* index in probes of the first probe that tested enabled (0: none yet)
BaseIdx ==
    IF \E i \in 1..Len(probes) : probes[i] \in enabled
      THEN CHOOSE i \in 1..Len(probes) :
               /\ probes[i] \in enabled
               /\ \A k \in 1..(i-1) : probes[k] \notin enabled
      ELSE 0

LayeredScanOrdered ==
    LET k == BaseIdx IN
    k > 0 =>
        /\ \A i, j \in 1..Len(probes) : i # j => probes[i] # probes[j]
        /\ \A i \in (k+1)..Len(probes) :
              /\ ProperSubtype(probes[i], probes[k])
              /\ Pos(probes[i]) > Pos(probes[k])
              /\ \A j \in (i+1)..Len(probes) : Pos(probes[i]) < Pos(probes[j])
              \* the first layered profile that tests enabled is the last probe
              /\ probes[i] \in enabled => i = Len(probes)
              \* no layered candidate before it in the worklist was passed over
              /\ \A c \in Range(clusters) :
                    ( ProperSubtype(c, probes[k]) /\ Pos(c) > Pos(probes[k])
                      /\ Pos(c) < Pos(probes[i]) ) => c \in Range(probes)
        /\ rpc = "done" =>
              config_cluster =
                  IF probes[Len(probes)] \in enabled
                    THEN probes[Len(probes)] ELSE probes[k]

\* C10: once a base candidate tests enabled, only not-yet-tried subtypes of
\* it are probed, in worklist order; the first that tests enabled is the
\* final selection and ends the scan; once the selection is made no
\* check_enabled call follows.
C10_LayeredScan ==
    /\ []LayeredScanOrdered
    /\ [][config_cluster # None => probes' = probes]_vars

\* a disabled layered profile was probed, a later one won, and an enabled
\* subtype of the base standing after the winner was never probed
C10_Witness ==
    /\ rpc = "done"
    /\ BaseIdx > 0
    /\ Len(probes) >= BaseIdx + 2
    /\ config_cluster = probes[Len(probes)]
    /\ \E c \in Range(clusters) :
          /\ c \in enabled /\ c \notin Range(probes)
          /\ ProperSubtype(c, probes[BaseIdx])

\* self.cluster_type of an instance of class c: the name of the class and
\* the names of the classes in its __bases__, 'Cluster' left out
ClassClusterType(c) == {c} \cup (Bases(c) \ {"Cluster"})

\* C28: the cluster_type of every registered profile holds its own type and
\* every ancestor type short of the abstract base Cluster, ancestors more
\* than one level away included; so a layered profile that resolution
\* selected over a base has that base in its cluster_type.
C28_TypeChain ==
    rpc = "done" =>
        /\ \A c \in Range(clusters) :
              ClassClusterType(c) = ({c} \cup Ancestors(c)) \ {"Cluster"}
        /\ BaseIdx > 0 => probes[BaseIdx] \in ClassClusterType(config_cluster)

----------------------------------------------------------------------------
(* Strings as sequences of characters                                      *)

Web1      == <<"w", "e", "b", "1">>
Web2      == <<"w", "e", "b", "2">>
Web2Pad   == <<" ", "w", "e", "b", "2", " ">>
Web       == <<"w", "e", "b">>
BadDash   == <<"-", "b", "a", "d">>
BadUnder  == <<"_", "t", "b", "d">>
Empty     == <<>>
WebStar   == <<"w", "e", "b", "*">>
HostQ     == <<"h", ".", "?">>
HostFqdn  == <<"h", ".", "x">>
HostOther == <<"h", ".", "y">>
MasterHost == <<"m", ".", "x">>
MasterAddr == <<"1", "0", ".", "9">>
LocalIp    == <<"1", "0", ".", "7">>

\* self.config['hostname'] and self.config['ip_addrs'] of the local system
LocalHostname == HostFqdn
IpAddrs == <<LocalIp>>
\* self.master.hostname when a master is designated
MasterHostname == MasterHost
\* self.config['master'] when no master is designated (falsy)
NoMaster == <<>>

Whitespace == {" ", "\t", "\n", "\r"}

RECURSIVE LStrip(_)
LStrip(s) == IF s # <<>> /\ Head(s) \in Whitespace THEN LStrip(Tail(s)) ELSE s

RECURSIVE RStrip(_)
RStrip(s) ==
    IF s # <<>> /\ s[Len(s)] \in Whitespace
      THEN RStrip(SubSeq(s, 1, Len(s) - 1)) ELSE s

\* str.strip()
Strip(s) == RStrip(LStrip(s))

\* str.startswith(tuple of one-character prefixes)
StartsWithAny(s, chars) == s # <<>> /\ s[1] \in chars

\* any(i in node for i in chars)
HasAny(s, chars) == \E i \in 1..Len(s) : s[i] \in chars

\* node.split('.')[0]
ShortName(s) ==
    IF \E i \in 1..Len(s) : s[i] = "."
      THEN LET d == CHOOSE i \in 1..Len(s) :
                        s[i] = "." /\ \A k \in 1..(i-1) : s[k] # "."
           IN  SubSeq(s, 1, d - 1)
      ELSE s

\* re.match(fnmatch.translate(p), s): '*' any run, '?' any one character,
\* anything else itself, anchored at both ends.  (No pattern of the model
\* holds '[', so character classes do not arise.)
RECURSIVE GlobMatch(_, _)
GlobMatch(p, s) ==
    IF p = <<>> THEN s = <<>>
    ELSE IF Head(p) = "*"
      THEN GlobMatch(Tail(p), s) \/ (s # <<>> /\ GlobMatch(p, Tail(s)))
    ELSE IF Head(p) = "?"
      THEN s # <<>> /\ GlobMatch(Tail(p), Tail(s))
    ELSE s # <<>> /\ Head(s) = Head(p) /\ GlobMatch(Tail(p), Tail(s))

\* for x in lst: if x in bad: lst.remove(x)
\* The list iterator keeps an index into the list it walks: after a removal
\* the element that slid into the freed place is never visited.
RECURSIVE IterRemoveFrom(_, _, _)
IterRemoveFrom(lst, i, bad) ==
    IF i > Len(lst) THEN lst
    ELSE IF lst[i] \in bad
      THEN IterRemoveFrom(RemoveFirst(lst, lst[i]), i + 1, bad)
      ELSE IterRemoveFrom(lst, i + 1, bad)

IterRemove(lst, bad) == IterRemoveFrom(lst, 1, bad)

\* one listing of the finite set S
RECURSIVE SetToSeq(_)
SetToSeq(S) ==
    IF S = {} THEN <<>>
    ELSE LET x == CHOOSE y \in S : TRUE IN <<x>> \o SetToSeq(S \ {x})

\* len(max(lst, key=len)) of a non-empty list
MaxLen(lst) ==
    LET lens == {Len(lst[i]) : i \in 1..Len(lst)}
    IN  CHOOSE m \in lens : \A l \in lens : l <= m

----------------------------------------------------------------------------
(* Cluster.format_node_list and Cluster._get_nodes                         *)

BlacklistChars == {"-", "_", "(", ")", "[", "]", "/", "\\"}

\* format_node_list() on what get_nodes() did, with `order` the order in which
\* list(set(nodes)) lists the distinct tokens
FormatNodeList(r, order) ==
    IF r.kind = "raise"
      \* get_nodes() raised: logged and raised again
      THEN [called |-> TRUE, raised |-> TRUE, list |-> <<>>]
    ELSE IF r.kind = "list"
      \* the stripped list is built and then replaced by list(set(nodes))
      THEN [called |-> TRUE, raised |-> FALSE,
            list |-> IterRemove(order,
                        {n \in Range(order) : StartsWithAny(n, BlacklistChars)})]
    ELSE IF r.kind = "str" /\ r.val = <<>>
      \* the comprehension over '' is empty; list(set('')) is []
      THEN [called |-> TRUE, raised |-> FALSE, list |-> <<>>]
    \* a non-empty str: n.split(',') is a list, which has no strip();
    \* None: node_list is never bound.  Both raise.
    ELSE [called |-> TRUE, raised |-> TRUE, list |-> <<>>]

\* the orders list(set(nodes)) may produce
SetOrders(r) == IF r.kind = "list" THEN Perms(Range(r.val)) ELSE {<<>>}

\* _get_nodes(): the formatted list, [] when formatting raised
ClusterGetNodes(f) == IF f.raised THEN <<>> ELSE f.list

----------------------------------------------------------------------------
(* SosCollector.get_nodes and reduce_node_list                             *)

\* the characters that make a --nodes entry unusable as a literal node name
FallbackChars == {"*", "\\", "?", "(", ")", "/"}
\* the characters that keep a --nodes entry from being force-added
ForceChars == {"*", "\\", "?", "(", ")", "/", "[", "]"}

\* re.match of the translated pattern without its closing anchor: the pattern
\* has only to match a prefix of s
RECURSIVE GlobPrefix(_, _)
GlobPrefix(p, s) ==
    IF p = <<>> THEN TRUE
    ELSE IF Head(p) = "*"
      THEN GlobPrefix(Tail(p), s) \/ (s # <<>> /\ GlobPrefix(p, Tail(s)))
    ELSE IF Head(p) = "?"
      THEN s # <<>> /\ GlobPrefix(Tail(p), Tail(s))
    ELSE s # <<>> /\ Head(s) = Head(p) /\ GlobPrefix(Tail(p), Tail(s))

\* a comparison that keeps a node as soon as a pattern matches its beginning
CompareNodeToPrefix(node, patterns) ==
    \E i \in 1..Len(patterns) : GlobPrefix(patterns[i], node)

\* compare_node_to_regex(node)
CompareNodeToRegex(node, patterns) ==
    \E i \in 1..Len(patterns) : GlobMatch(patterns[i], node)

\* the try block of get_nodes.  nodes is what get_nodes_from_cluster()
\* returned (isNone: it returned None, no cluster type being set).
\* Iterating None raises TypeError, and the handler then binds node_list to
\* the very list object of config['nodes'] (aliased) and removes the wildcard
\* entries from it while walking it.
TryBlock(isNone, nodes, nl0, patterns) ==
    IF ~isNone
      THEN IF patterns # <<>>
             THEN LET Keep(n) == CompareNodeToRegex(n, patterns)
                  IN  [nl |-> nl0 \o SelectSeq(nodes, Keep), aliased |-> FALSE,
                       crashed |-> FALSE]
             ELSE [nl |-> nodes, aliased |-> FALSE, crashed |-> FALSE]
      ELSE IF patterns # <<>>
             THEN [nl |-> IterRemove(patterns,
                          {n \in Range(patterns) : HasAny(n, FallbackChars)}),
                   aliased |-> TRUE, crashed |-> FALSE]
             \* node_list = None; the first use of it raises TypeError
             ELSE [nl |-> <<>>, aliased |-> FALSE, crashed |-> TRUE]

\* force add any non-regex node strings from the nodes option
RECURSIVE ForceAddFrom(_, _, _)
ForceAddFrom(nl, patterns, i) ==
    IF i > Len(patterns) THEN nl
    ELSE IF HasAny(patterns[i], ForceChars) \/ patterns[i] \in Range(nl)
      THEN ForceAddFrom(nl, patterns, i + 1)
      ELSE ForceAddFrom(Append(nl, patterns[i]), patterns, i + 1)

\* a get_nodes without the force-add loop
ForceAddNone(nl, patterns) == nl

ForceAdd(nl, patterns) == ForceAddFrom(nl, patterns, 1)

\* trust the local hostname before the node report from cluster
LocalPrecedence(nl) ==
    Append(IterRemove(nl, {n \in Range(nl) :
                              ShortName(n) = ShortName(LocalHostname)}),
           LocalHostname)

\* for i in ip_addrs: if i in node_list: node_list.remove(i)
RECURSIVE RemoveIpsFrom(_, _)
RemoveIpsFrom(nl, i) ==
    IF i > Len(IpAddrs) THEN nl
    ELSE IF IpAddrs[i] \in Range(nl)
      THEN RemoveIpsFrom(RemoveFirst(nl, IpAddrs[i]), i + 1)
      ELSE RemoveIpsFrom(nl, i + 1)

\* reduce_node_list up to its last assignment: the removals, made in place
ReduceInPlace(nl, master, no_local) ==
    LET r1 == IF LocalHostname \in Range(nl) /\ no_local
                THEN RemoveFirst(nl, LocalHostname) ELSE nl
        r2 == RemoveIpsFrom(r1, 1)
    IN  IF master # NoMaster
          THEN IterRemove(r2, {MasterHostname, master})
          ELSE r2

\* a reduce_node_list that leaves the list as the removals left it
ReduceKeep(nl) == nl

\* node_list = list(set(n for n in node_list if n)).  The order of the new
\* list is unspecified; node_list holds one listing of it.
ReduceRebuild(nl) == SetToSeq({n \in Range(nl) : n # <<>>})

\* get_nodes after the cluster was asked: everything from the try block to
\* the end of reduce_node_list
Reconcile(isNone, nodes, nl0, patterns, master, no_local) ==
    LET t  == TryBlock(isNone, nodes, nl0, patterns)
        \* config['nodes'] as the force-add loop reads it
        p1 == IF t.aliased THEN t.nl ELSE patterns
        a  == IF p1 # <<>> THEN ForceAdd(t.nl, p1) ELSE t.nl
        l  == IF master = NoMaster THEN LocalPrecedence(a) ELSE a
        r  == ReduceInPlace(l, master, no_local)
    IN  [node_list |-> ReduceRebuild(r),
         before_reduce |-> l,
         config_nodes |-> IF t.aliased THEN r ELSE patterns,
         crashed |-> t.crashed]

\* the tokens a profile's get_nodes() may report
EnumTokens == {Web1, Web2Pad, BadDash, BadUnder, Empty, HostFqdn, HostOther,
               MasterHost, MasterAddr, LocalIp}
\* the most distinct tokens one enumeration reports
MaxEnum == 2
\* the entries a user may give with --nodes, and the most of them
PatternTokens == {Web, WebStar, HostQ, MasterHost}
MaxPatterns == 2

\* the list of the specification's token-sanitization example
SpecExample == <<Web1, BadDash, Empty, Web2Pad, Web1>>
\* "web1, web2,web1"
CsvNodes == <<"w", "e", "b", "1", ",", " ", "w", "e", "b", "2", ",",
              "w", "e", "b", "1">>

\* format_node_list reads the list only through set(nodes): one listing of
\* each set of tokens, alone and with its first token repeated, stands for
\* every list of those tokens
RawLists ==
    LET sets == {S \in SUBSET EnumTokens : Cardinality(S) <= MaxEnum}
        Rep(l) == IF l = <<>> THEN l ELSE Append(l, l[1])
    IN  {SetToSeq(S) : S \in sets} \cup {Rep(SetToSeq(S)) : S \in sets}
            \cup {SpecExample}

RawEnum ==
    {[kind |-> "list", val |-> l] : l \in RawLists}
        \cup {[kind |-> "str", val |-> v] : v \in {<<>>, CsvNodes}}
        \cup {[kind |-> "none", val |-> <<>>], [kind |-> "raise", val |-> <<>>]}

NotCalled == [called |-> FALSE, raised |-> FALSE, list |-> <<>>]

InitNodes ==
    /\ has_cluster \in BOOLEAN
    /\ raw \in IF has_cluster THEN RawEnum
                              ELSE {[kind |-> "none", val |-> <<>>]}
    /\ config_nodes \in InjSeqs(PatternTokens, MaxPatterns)
    /\ config_master \in {NoMaster, MasterAddr, MasterHost}
    \* prep sets no_local when a master is designated
    /\ config_no_local \in IF config_master = NoMaster THEN BOOLEAN ELSE {TRUE}
    /\ node_list = <<>>
    /\ fmt_result = NotCalled
    /\ npc = "prep"
    /\ n_exit = -1
    /\ hostlen = 0
    /\ user_nodes = config_nodes
    /\ first_list = <<>>
    /\ ResolveIdle
    /\ CollectIdle
    /\ OptionsIdle
    /\ CleanupIdle

\* prep: no profile and no --nodes ends the run, else on to get_nodes
PrepCheck ==
    /\ npc = "prep"
    /\ IF ~has_cluster /\ config_nodes = <<>>
         THEN npc' = "exited" /\ n_exit' = 1
         ELSE npc' = "get_nodes" /\ n_exit' = n_exit
    /\ UNCHANGED <<raw, has_cluster, config_nodes, config_master,
                   config_no_local, node_list, fmt_result, hostlen,
                   user_nodes, first_list>>
    /\ UNCHANGED <<rvars, cvars, ovars, kvars>>

\* get_nodes: neither a master nor a profile
GetNodesAbort ==
    /\ npc = "get_nodes"
    /\ config_master = NoMaster /\ ~has_cluster
    /\ npc' = "exited"
    /\ n_exit' = 1
    /\ UNCHANGED <<raw, has_cluster, config_nodes, config_master,
                   config_no_local, node_list, fmt_result, hostlen,
                   user_nodes, first_list>>
    /\ UNCHANGED <<rvars, cvars, ovars, kvars>>

\* get_nodes, with get_nodes_from_cluster and reduce_node_list
GetNodes ==
    /\ npc = "get_nodes"
    /\ ~(config_master = NoMaster /\ ~has_cluster)
    /\ \E order \in SetOrders(raw) :
         LET f == IF has_cluster THEN FormatNodeList(raw, order) ELSE fmt_result
         IN
         \E g \in {Reconcile(~has_cluster, ClusterGetNodes(f), node_list,
                             config_nodes, config_master, config_no_local)} :
             /\ fmt_result' = f
             /\ node_list' = g.node_list
             /\ first_list' = g.node_list
             /\ config_nodes' = g.config_nodes
             /\ npc' = IF g.crashed THEN "crashed" ELSE "done"
             /\ hostlen' = IF g.node_list # <<>> THEN MaxLen(g.node_list)
                                                ELSE Len(config_master)
    /\ UNCHANGED <<raw, has_cluster, config_master, config_no_local, n_exit,
                   user_nodes>>
    /\ UNCHANGED <<rvars, cvars, ovars, kvars>>

\* get_nodes called once more on the same collector: the profile reports
\* what it reported before, self.node_list and self.config['nodes'] are what
\* the first call left (node_list in whatever order list(set()) gave it)
GetNodesAgain ==
    /\ npc = "done"
    /\ \E nl0 \in Perms(Range(node_list)) :
         \E g \in {Reconcile(~has_cluster, ClusterGetNodes(fmt_result), nl0,
                             config_nodes, config_master, config_no_local)} :
             /\ node_list' = g.node_list
             /\ config_nodes' = g.config_nodes
             /\ npc' = IF g.crashed THEN "crashed" ELSE "done2"
             /\ hostlen' = IF g.node_list # <<>> THEN MaxLen(g.node_list)
                                                ELSE Len(config_master)
    /\ UNCHANGED <<raw, has_cluster, config_master, config_no_local, n_exit,
                   fmt_result, user_nodes, first_list>>
    /\ UNCHANGED <<rvars, cvars, ovars, kvars>>

NextNodes ==
    \/ PrepCheck
    \/ GetNodesAbort
    \/ GetNodes
    \/ GetNodesAgain

SpecNodes == InitNodes /\ [][NextNodes]_vars

----------------------------------------------------------------------------
(* Claims about the node list                                              *)

\* C3: with a designated master, after get_nodes (reduce_node_list included)
\* the node list holds neither the master's hostname nor its configured
\* address, whatever the order of the entries before the reduction.
C3_MasterExcluded ==
    (npc = "done" /\ config_master # NoMaster) =>
        /\ MasterHostname \notin Range(node_list)
        /\ config_master \notin Range(node_list)

\* C4: with no master designated, after get_nodes no entry other than the
\* local hostname itself has the local short hostname, and the local
\* hostname is present unless no_local is set.
C4_LocalPrecedence ==
    (npc = "done" /\ config_master = NoMaster) =>
        /\ \A n \in Range(node_list) :
              n # LocalHostname => ShortName(n) # ShortName(LocalHostname)
        /\ ~config_no_local => LocalHostname \in Range(node_list)

\* C5: format_node_list on a list of raw node strings returns a list without
\* duplicates whose tokens are trimmed, non-empty and free of a blacklisted
\* first character; the specification's example yields {"web1", "web2"}.
C5_Canonicalize ==
    (fmt_result.called /\ ~fmt_result.raised /\ raw.kind = "list") =>
        LET out == fmt_result.list IN
        /\ \A i, j \in 1..Len(out) : i # j => out[i] # out[j]
        /\ \A i \in 1..Len(out) :
              /\ out[i] = Strip(out[i])
              /\ out[i] # <<>>
              /\ ~StartsWithAny(out[i], BlacklistChars)
        /\ raw.val = SpecExample => Range(out) = {Web1, Web2}

\* C11: when no profile was selected and the user gave a non-empty --nodes
\* list, the run does not abort for a detection failure, with or without a
\* designated master; prep and get_nodes end the run only when there is
\* neither a profile nor a node list.
C11_ExplicitNodesProceed ==
    npc = "exited" => (~has_cluster /\ user_nodes = <<>>)

\* C12: when enumeration failed (no profile to ask, or the profile's
\* enumeration raised) and the user gave patterns, no entry holding one of
\* * ? \ ( ) / is left in the node list, adjacent wildcard entries included.
C12_FallbackLiterals ==
    (npc = "done" /\ user_nodes # <<>> /\ (~has_cluster \/ fmt_result.raised))
        => \A n \in Range(node_list) : ~HasAny(n, FallbackChars)

\* a --nodes entry usable as a node name
Literal(n) == ~HasAny(n, ForceChars)

\* an entry the local-host / master reconciliation takes out
Reconciled(n) ==
    \/ ShortName(n) = ShortName(LocalHostname)
    \/ n \in Range(IpAddrs)
    \/ config_master # NoMaster /\ n \in {MasterHostname, config_master}

\* C13: after get_nodes every --nodes entry without a wildcard/special
\* character is in the node list, also when the profile enumerated nodes and
\* did not report it, unless the reconciliation removed it (local short
\* hostname, local IP address, the master's hostname or address).
C13_ForceAdd ==
    npc = "done" =>
        \A i \in 1..Len(user_nodes) :
            (Literal(user_nodes[i]) /\ ~Reconciled(user_nodes[i]))
                => user_nodes[i] \in Range(node_list)

\* the profile enumerated nodes, none of them the literal the user named,
\* and the literal is in the final list
C13_Witness ==
    /\ npc = "done" /\ has_cluster /\ ~fmt_result.raised
    /\ fmt_result.list # <<>>
    /\ Web \in Range(user_nodes)
    /\ Web \notin Range(fmt_result.list)
    /\ Web \in Range(node_list)

\* C14: a second get_nodes on the same collector with the same inputs ends
\* (it does not fault) with the node set the first call produced.
C14_Idempotent ==
    /\ npc # "crashed"
    /\ npc = "done2" => Range(node_list) = Range(first_list)

\* C15: after get_nodes the node list has no duplicate and no empty entry.
C15_NoDupNoEmpty ==
    npc \in {"done", "done2"} =>
        /\ \A i, j \in 1..Len(node_list) : i # j => node_list[i] # node_list[j]
        /\ \A i \in 1..Len(node_list) : node_list[i] # <<>>

\* the profile reported an empty name, no pattern filtered it, and the
\* final list is without it
C15_Witness ==
    /\ npc = "done" /\ has_cluster /\ user_nodes = <<>>
    /\ Empty \in Range(fmt_result.list)
    /\ Len(fmt_result.list) >= 2
    /\ node_list # <<>>
    /\ Empty \notin Range(node_list)

\* C16: with user patterns and a profile to enumerate, every entry of the
\* node list is a literal the user named, the local hostname, or an
\* enumerated node that some pattern matches in full (a pattern matching a
\* prefix only does not keep it); and every enumerated node that a pattern
\* matches is kept unless the reconciliation removed it.
C16_PatternFilter ==
    (npc = "done" /\ has_cluster /\ user_nodes # <<>>) =>
        LET enum == Range(ClusterGetNodes(fmt_result))
            Matched(n) ==
                \E i \in 1..Len(user_nodes) : GlobMatch(user_nodes[i], n)
        IN  /\ \A n \in Range(node_list) :
                  \/ n \in Range(user_nodes) /\ Literal(n)
                  \/ n = LocalHostname
                  \/ n \in enum /\ Matched(n)
            /\ \A n \in enum :
                  (Matched(n) /\ ~Reconciled(n) /\ n # <<>>)
                      => n \in Range(node_list)

\* "web" is a prefix of the enumerated "web1" and did not keep it, while
\* "h.?" kept the enumerated "h.y"
C16_Witness ==
    /\ npc = "done" /\ has_cluster
    /\ user_nodes = <<Web, HostQ>>
    /\ Range(fmt_result.list) = {Web1, HostOther}
    /\ Web1 \notin Range(node_list)
    /\ HostOther \in Range(node_list)

\* str.split(','): the pieces of s between its commas
RECURSIVE SplitComma(_, _)
SplitComma(s, piece) ==
    IF s = <<>> THEN <<piece>>
    ELSE IF Head(s) = "," THEN <<piece>> \o SplitComma(Tail(s), <<>>)
    ELSE SplitComma(Tail(s), Append(piece, Head(s)))

\* the trimmed, non-empty tokens of a comma-delimited string
CsvTokens(s) ==
    LET pieces == SplitComma(s, <<>>)
    IN  {Strip(pieces[i]) : i \in 1..Len(pieces)} \ {<<>>}

\* C23: when the profile's get_nodes() returns one delimited string, the
\* nodes handed to get_nodes of the collector are its trimmed tokens
\* without duplicates ("web1, web2,web1" gives {"web1", "web2"}), not an
\* empty list and not single characters.
C23_DelimitedString ==
    (fmt_result.called /\ raw.kind = "str" /\ raw.val # <<>>) =>
        /\ ~fmt_result.raised
        /\ Range(ClusterGetNodes(fmt_result)) = CsvTokens(raw.val)

\* C30: get_nodes and reduce_node_list leave config['nodes'] as the user
\* gave it on every path, the fallback after a failed enumeration
\* included: nothing is removed from it and nothing is appended to it.
C30_PatternsUnchanged ==
    npc = "done" => config_nodes = user_nodes

----------------------------------------------------------------------------
(* SosCollector.collect and its worker tasks                               *)

Localhost == <<"l", "o", "c", "a", "l", "h", "o", "s", "t">>

\* self.master.address: prep opens SosNode('localhost') when no master is
\* designated
MasterAddress == IF config_master = NoMaster THEN Localhost ELSE config_master

\* the node names a run may have listed, and the most of them
CollectNodes == {Web1, HostFqdn, MasterAddr}
MaxNodes == 2
\* the largest pool size tried
MaxThreads == 2

\* the ways a run ends early, and the status each one ends the process with:
\* os._exit(130) and _exit(msg, 130) on KeyboardInterrupt, _exit(msg) with
\* its default error=1 for a rejected cluster option, _exit(msg, 1) when
\* nothing was retrieved, _exit(msg, 2) when the archive cannot be written
FatalOutcomes == {"cancel", "config", "none_retrieved", "archive"}

ExitCode(outcome) ==
    CASE outcome = "cancel"         -> 130
      [] outcome = "config"         -> 1
      [] outcome = "none_retrieved" -> 1
      [] outcome = "archive"        -> 2

\* the tasks of a pool that a worker thread is running
InFlight(st) == {t \in DOMAIN st : st[t] \notin {"queued", "done"}}

\* a pool that starts a thread for every task
PoolUnbounded(st) == TRUE

\* ThreadPoolExecutor(self.config['threads']): a task is taken off the queue
\* only by one of the `threads` worker threads, each running one task at a time
PoolHasIdleWorker(st) == Cardinality(InFlight(st)) < threads

\* pool.shutdown(wait=False)
PoolShutdownNoWait(queue, st) == TRUE

\* pool.shutdown(wait=True) returns once every submitted task has finished
PoolShutdownReturns(queue, st) == queue = <<>> /\ InFlight(st) = {}

InitCollect ==
    /\ ResolveIdle
    /\ OptionsIdle
    /\ CleanupIdle
    /\ raw = [kind |-> "none", val |-> <<>>]
    /\ has_cluster = TRUE
    /\ config_nodes = <<>>
    /\ fmt_result = NotCalled
    /\ npc = "done"
    /\ n_exit = -1
    /\ hostlen = 0
    /\ user_nodes = <<>>
    /\ first_list = <<>>
    /\ config_master \in {NoMaster, MasterAddr}
    /\ config_no_local \in IF config_master = NoMaster THEN BOOLEAN ELSE {TRUE}
    \* the node list get_nodes left, in whatever order list(set()) gave it:
    \* with a master the local hostname was removed from it (no_local is
    \* set), with neither a master nor no_local it was appended and kept
    /\ node_list \in
         {l \in InjSeqs(CollectNodes, MaxNodes) :
             /\ config_master # NoMaster => LocalHostname \notin Range(l)
             /\ (config_master = NoMaster /\ ~config_no_local)
                    => LocalHostname \in Range(l)}
    /\ threads \in 1..MaxThreads
    \* intro() ends the run when there is no node and no connected master
    /\ master_connected \in IF node_list = <<>> THEN {TRUE} ELSE BOOLEAN
    /\ m_hostname \in IF config_master = NoMaster
                        THEN {LocalHostname, Localhost} ELSE {MasterHostname}
    /\ c_local \in SUBSET {Localhost, LocalHostname}
    /\ has_extra \in BOOLEAN
    /\ client_list = <<>>
    /\ conn = <<>>
    /\ conn_queue = <<>>
    /\ coll = <<>>
    /\ coll_queue = <<>>
    /\ tmp = <<>>
    /\ retrieved = 0
    /\ retrieved_flag = {}
    /\ sos_calls = <<>>
    /\ closed = {}
    /\ report_num = 0
    /\ extra_calls = 0
    /\ archive_created = FALSE
    /\ cpc = "start"
    /\ interrupted = FALSE
    /\ c_exit = -1
    /\ established = {}
    /\ attempts = <<>>
    /\ extra_via = {}

\* collect: the master joins the client list, the nodes other than the
\* master are handed to the first pool (pool.map submits them in order)
CollectBegin ==
    /\ cpc = "start"
    /\ client_list' = IF master_connected THEN <<MasterAddress>> ELSE <<>>
    /\ LET NotMaster(n) == n \notin {MasterAddress, m_hostname}
           nodes == SelectSeq(node_list, NotMaster)
       IN  /\ conn_queue' = nodes
           /\ conn' = [n \in Range(nodes) |-> "queued"]
           /\ attempts' = [n \in Range(nodes) |-> 0]
    /\ cpc' = "connect"
    /\ UNCHANGED <<established, extra_via>>
    /\ UNCHANGED <<interrupted, threads, master_connected, m_hostname, c_local, has_extra,
                   coll, coll_queue, tmp, retrieved, retrieved_flag, sos_calls,
                   closed, report_num, extra_calls, archive_created, c_exit>>
    /\ UNCHANGED <<rvars, nvars, ovars, kvars>>

\* a worker thread of the first pool takes the next node
ConnectStart ==
    /\ cpc = "connect"
    /\ conn_queue # <<>>
    /\ PoolHasIdleWorker(conn)
    /\ conn' = [conn EXCEPT ![Head(conn_queue)] = "running"]
    /\ attempts' = [attempts EXCEPT ![Head(conn_queue)] = @ + 1]
    /\ conn_queue' = Tail(conn_queue)
    /\ UNCHANGED <<established, extra_via>>
    /\ UNCHANGED <<interrupted, threads, master_connected, m_hostname, c_local, has_extra,
                   client_list, coll, coll_queue, tmp, retrieved,
                   retrieved_flag, sos_calls, closed, report_num, extra_calls,
                   archive_created, cpc, c_exit>>
    /\ UNCHANGED <<rvars, nvars, ovars, kvars>>

\* a _connect_to_node that keeps the client whether or not it is connected
ConnectFinishKeep(n) ==
    /\ cpc = "connect"
    /\ conn[n] = "running"
    /\ \E outcome \in {"connected", "refused", "raise"} :
         /\ client_list' = IF outcome \in {"connected", "refused"}
                             THEN Append(client_list, n) ELSE client_list
         /\ closed' = IF outcome = "refused" THEN closed \cup {n} ELSE closed
         /\ established' = IF outcome = "connected"
                             THEN established \cup {n} ELSE established
    /\ conn' = [conn EXCEPT ![n] = "done"]
    /\ UNCHANGED <<attempts, extra_via>>
    /\ UNCHANGED <<interrupted, threads, master_connected, m_hostname, c_local, has_extra,
                   conn_queue, coll, coll_queue, tmp, retrieved,
                   retrieved_flag, sos_calls, report_num, extra_calls,
                   archive_created, cpc, c_exit>>
    /\ UNCHANGED <<rvars, nvars, ovars, kvars>>

\* _connect_to_node(n) ends: the session is connected and joins the client
\* list, or it is not and is closed, or SosNode() raised and nothing is done
ConnectFinish(n) ==
    /\ cpc = "connect"
    /\ conn[n] = "running"
    /\ \E outcome \in {"connected", "refused", "raise"} :
         /\ client_list' = IF outcome = "connected"
                             THEN Append(client_list, n) ELSE client_list
         /\ closed' = IF outcome = "refused" THEN closed \cup {n} ELSE closed
         /\ established' = IF outcome = "connected"
                             THEN established \cup {n} ELSE established
    /\ conn' = [conn EXCEPT ![n] = "done"]
    /\ UNCHANGED <<attempts, extra_via>>
    /\ UNCHANGED <<interrupted, threads, master_connected, m_hostname, c_local, has_extra,
                   conn_queue, coll, coll_queue, tmp, retrieved,
                   retrieved_flag, sos_calls, report_num, extra_calls,
                   archive_created, cpc, c_exit>>
    /\ UNCHANGED <<rvars, nvars, ovars, kvars>>

\* the first pool has shut down: report_num is set and the clients are handed
\* to the second pool
CollectPhaseBegin ==
    /\ cpc = "connect"
    /\ PoolShutdownReturns(conn_queue, conn)
    /\ report_num' = Len(client_list) -
           (IF config_no_local /\ MasterAddress = Localhost THEN 1 ELSE 0)
    /\ coll_queue' = client_list
    /\ coll' = [c \in Range(client_list) |-> "queued"]
    /\ tmp' = [c \in Range(client_list) |-> 0]
    /\ sos_calls' = [c \in Range(client_list) |-> 0]
    /\ cpc' = "collect"
    /\ UNCHANGED <<established, attempts, extra_via>>
    /\ UNCHANGED <<interrupted, threads, master_connected, m_hostname, c_local, has_extra,
                   client_list, conn, conn_queue, retrieved, retrieved_flag,
                   closed, extra_calls, archive_created, c_exit>>
    /\ UNCHANGED <<rvars, nvars, ovars, kvars>>

\* a worker thread of the second pool takes the next client
CollectStart ==
    /\ cpc = "collect"
    /\ coll_queue # <<>>
    /\ PoolHasIdleWorker(coll)
    /\ coll' = [coll EXCEPT ![Head(coll_queue)] = "running"]
    /\ coll_queue' = Tail(coll_queue)
    /\ UNCHANGED <<established, attempts, extra_via>>
    /\ UNCHANGED <<interrupted, threads, master_connected, m_hostname, c_local, has_extra,
                   client_list, conn, conn_queue, tmp, retrieved,
                   retrieved_flag, sos_calls, closed, report_num, extra_calls,
                   archive_created, cpc, c_exit>>
    /\ UNCHANGED <<rvars, nvars, ovars, kvars>>

\* a _collect that runs sosreport() on every client, local or not
CollectRunNoSkip(c) ==
    /\ cpc = "collect"
    /\ coll[c] = "running"
    /\ sos_calls' = [sos_calls EXCEPT ![c] = @ + 1]
    /\ \E outcome \in {"ok", "fail", "raise"} :
         IF outcome = "ok"
           THEN /\ retrieved_flag' = retrieved_flag \cup {c}
                /\ tmp' = [tmp EXCEPT ![c] = retrieved]
                /\ coll' = [coll EXCEPT ![c] = "loaded"]
           ELSE /\ coll' = [coll EXCEPT ![c] = "done"]
                /\ UNCHANGED <<tmp, retrieved_flag>>
    /\ UNCHANGED <<established, attempts, extra_via>>
    /\ UNCHANGED <<interrupted, threads, master_connected, m_hostname, c_local, has_extra,
                   client_list, conn, conn_queue, coll_queue, retrieved,
                   closed, report_num, extra_calls, archive_created, cpc,
                   c_exit>>
    /\ UNCHANGED <<rvars, nvars, ovars, kvars>>

\* a _collect that counts a client whatever became of its sosreport()
CollectRunCountAll(c) ==
    /\ cpc = "collect"
    /\ coll[c] = "running"
    /\ IF c \in c_local /\ config_no_local
         THEN /\ coll' = [coll EXCEPT ![c] = "done"]
              /\ UNCHANGED <<tmp, retrieved_flag, sos_calls>>
         ELSE /\ sos_calls' = [sos_calls EXCEPT ![c] = @ + 1]
              /\ \E outcome \in {"ok", "fail", "raise"} :
                   /\ retrieved_flag' = IF outcome = "ok"
                                          THEN retrieved_flag \cup {c}
                                          ELSE retrieved_flag
                   /\ tmp' = [tmp EXCEPT ![c] = retrieved]
                   /\ coll' = [coll EXCEPT ![c] = "loaded"]
    /\ UNCHANGED <<established, attempts, extra_via>>
    /\ UNCHANGED <<interrupted, threads, master_connected, m_hostname, c_local, has_extra,
                   client_list, conn, conn_queue, coll_queue, retrieved,
                   closed, report_num, extra_calls, archive_created, cpc,
                   c_exit>>
    /\ UNCHANGED <<rvars, nvars, ovars, kvars>>

\* _collect(c) up to the load of self.retrieved: sosreport() runs unless the
\* client is local and no_local is set; it sets client.retrieved, leaves it
\* unset, or raises (logged).  With client.retrieved set the thread loads
\* self.retrieved for the += 1.
CollectRun(c) ==
    /\ cpc = "collect"
    /\ coll[c] = "running"
    /\ IF c \in c_local /\ config_no_local
         THEN /\ coll' = [coll EXCEPT ![c] = "done"]
              /\ UNCHANGED <<tmp, retrieved_flag, sos_calls>>
         ELSE /\ sos_calls' = [sos_calls EXCEPT ![c] = @ + 1]
              /\ \E outcome \in {"ok", "fail", "raise"} :
                   IF outcome = "ok"
                     THEN /\ retrieved_flag' = retrieved_flag \cup {c}
                          /\ tmp' = [tmp EXCEPT ![c] = retrieved]
                          /\ coll' = [coll EXCEPT ![c] = "loaded"]
                     ELSE /\ coll' = [coll EXCEPT ![c] = "done"]
                          /\ UNCHANGED <<tmp, retrieved_flag>>
    /\ UNCHANGED <<established, attempts, extra_via>>
    /\ UNCHANGED <<interrupted, threads, master_connected, m_hostname, c_local, has_extra,
                   client_list, conn, conn_queue, coll_queue, retrieved,
                   closed, report_num, extra_calls, archive_created, cpc,
                   c_exit>>
    /\ UNCHANGED <<rvars, nvars, ovars, kvars>>

\* the store of self.retrieved += 1
CollectStore(c) ==
    /\ cpc = "collect"
    /\ coll[c] = "loaded"
    /\ retrieved' = tmp[c] + 1
    /\ coll' = [coll EXCEPT ![c] = "done"]
    /\ UNCHANGED <<established, attempts, extra_via>>
    /\ UNCHANGED <<interrupted, threads, master_connected, m_hostname, c_local, has_extra,
                   client_list, conn, conn_queue, coll_queue, tmp,
                   retrieved_flag, sos_calls, closed, report_num, extra_calls,
                   archive_created, cpc, c_exit>>
    /\ UNCHANGED <<rvars, nvars, ovars, kvars>>

\* except KeyboardInterrupt: log_error(...); os._exit(130)
Interrupt ==
    /\ cpc \in {"connect", "collect"}
    /\ interrupted' = TRUE
    /\ cpc' = "exited"
    /\ c_exit' = ExitCode("cancel")
    /\ UNCHANGED <<established, attempts, extra_via>>
    /\ UNCHANGED <<threads, master_connected, m_hostname, c_local, has_extra,
                   client_list, conn, conn_queue, coll, coll_queue, tmp,
                   retrieved, retrieved_flag, sos_calls, closed, report_num,
                   extra_calls, archive_created>>
    /\ UNCHANGED <<rvars, nvars, ovars, kvars>>

\* a collect that runs the extra command without asking whether the profile
\* has one
ExtraCmdAlways ==
    /\ cpc = "collect"
    /\ PoolShutdownReturns(coll_queue, coll)
    /\ extra_calls' = extra_calls + 1
    /\ \E files \in BOOLEAN :
         extra_via' = IF files THEN extra_via \cup {MasterAddress}
                               ELSE extra_via
    /\ cpc' = "tally"
    /\ UNCHANGED <<established, attempts>>
    /\ UNCHANGED <<interrupted, threads, master_connected, m_hostname, c_local, has_extra,
                   client_list, conn, conn_queue, coll, coll_queue, tmp,
                   retrieved, retrieved_flag, sos_calls, closed, report_num,
                   archive_created, c_exit>>
    /\ UNCHANGED <<rvars, nvars, ovars, kvars>>

\* the second pool has shut down; the profile's extra command, if it has
\* one, is run, and the files it names (it may name none) are fetched with
\* self.master.collect_extra_cmd(files)
ExtraCmd ==
    /\ cpc = "collect"
    /\ PoolShutdownReturns(coll_queue, coll)
    /\ extra_calls' = IF has_extra THEN extra_calls + 1 ELSE extra_calls
    /\ \E files \in BOOLEAN :
         extra_via' = IF has_extra /\ files THEN extra_via \cup {MasterAddress}
                                             ELSE extra_via
    /\ cpc' = "tally"
    /\ UNCHANGED <<established, attempts>>
    /\ UNCHANGED <<interrupted, threads, master_connected, m_hostname, c_local, has_extra,
                   client_list, conn, conn_queue, coll, coll_queue, tmp,
                   retrieved, retrieved_flag, sos_calls, closed, report_num,
                   archive_created, c_exit>>
    /\ UNCHANGED <<rvars, nvars, ovars, kvars>>

\* a collect that goes on to the archive whatever the tally
TallyAlwaysArchive ==
    /\ cpc = "tally"
    /\ closed' = closed \cup Range(client_list)
    /\ cpc' = "archive" /\ c_exit' = c_exit
    /\ UNCHANGED <<established, attempts, extra_via>>
    /\ UNCHANGED <<interrupted, threads, master_connected, m_hostname, c_local, has_extra,
                   client_list, conn, conn_queue, coll, coll_queue, tmp,
                   retrieved, retrieved_flag, sos_calls, report_num,
                   extra_calls, archive_created>>
    /\ UNCHANGED <<rvars, nvars, ovars, kvars>>

\* the tally is logged, every session is closed, and the run goes on to the
\* archive or ends with _exit(msg, 1)
Tally ==
    /\ cpc = "tally"
    /\ closed' = closed \cup Range(client_list)
    /\ IF retrieved > 0
         THEN cpc' = "archive" /\ c_exit' = c_exit
         ELSE cpc' = "exited" /\ c_exit' = ExitCode("none_retrieved")
    /\ UNCHANGED <<established, attempts, extra_via>>
    /\ UNCHANGED <<interrupted, threads, master_connected, m_hostname, c_local, has_extra,
                   client_list, conn, conn_queue, coll, coll_queue, tmp,
                   retrieved, retrieved_flag, sos_calls, report_num,
                   extra_calls, archive_created>>
    /\ UNCHANGED <<rvars, nvars, ovars, kvars>>

\* create_cluster_archive: the archive is written, or _exit(msg, 2)
Archive ==
    /\ cpc = "archive"
    /\ \E ok \in BOOLEAN :
         IF ok THEN /\ archive_created' = TRUE
                    /\ cpc' = "finished"
                    /\ c_exit' = 0
               ELSE /\ archive_created' = FALSE
                    /\ cpc' = "exited"
                    /\ c_exit' = ExitCode("archive")
    /\ UNCHANGED <<established, attempts, extra_via>>
    /\ UNCHANGED <<interrupted, threads, master_connected, m_hostname, c_local, has_extra,
                   client_list, conn, conn_queue, coll, coll_queue, tmp,
                   retrieved, retrieved_flag, sos_calls, closed, report_num,
                   extra_calls>>
    /\ UNCHANGED <<rvars, nvars, ovars, kvars>>

NextCollect ==
    \/ CollectBegin
    \/ ConnectStart
    \/ \E n \in DOMAIN conn : ConnectFinish(n)
    \/ CollectPhaseBegin
    \/ CollectStart
    \/ \E c \in DOMAIN coll : CollectRun(c)
    \/ \E c \in DOMAIN coll : CollectStore(c)
    \/ Interrupt
    \/ ExtraCmd
    \/ Tally
    \/ Archive

SpecCollect == InitCollect /\ [][NextCollect]_vars

----------------------------------------------------------------------------
(* Claims about collect                                                    *)

\* the collect phase is over: its pool has shut down
CollectPhaseOver == cpc \in {"tally", "archive", "finished"} \/ c_exit \in {0, 1, 2}

\* C2: after the collect phase, under every interleaving of the collect
\* workers, the retrieved counter equals the number of clients whose report
\* action succeeded; no increment is lost.
C2_RetrievedCount ==
    CollectPhaseOver => retrieved = Cardinality(retrieved_flag)

\* C6: at no point of the connect phase and at no point of the collect phase
\* are more than config['threads'] per-node tasks in flight.
C6_BoundedConcurrency ==
    /\ Cardinality(InFlight(conn)) <= threads
    /\ Cardinality(InFlight(coll)) <= threads

\* more clients than threads: every worker of the second pool is busy while
\* a client still waits in the queue
C6_Witness ==
    /\ cpc = "collect"
    /\ Len(client_list) > threads
    /\ Cardinality(InFlight(coll)) = threads
    /\ coll_queue # <<>>

\* C7: no collect task starts before every connect task has finished, and
\* neither the extra-artifact step, the tally nor the archive begins before
\* every collect task has finished.
C7_PhaseBarrier ==
    /\ (\E c \in DOMAIN coll : coll[c] # "queued") =>
           (conn_queue = <<>> /\ \A n \in DOMAIN conn : conn[n] = "done")
    /\ (CollectPhaseOver \/ extra_calls > 0 \/ archive_created) =>
           /\ conn_queue = <<>> /\ \A n \in DOMAIN conn : conn[n] = "done"
           /\ coll_queue = <<>> /\ \A c \in DOMAIN coll : coll[c] = "done"

\* a run with connect tasks that ended both ways and several collect tasks
\* has passed both barriers and reached the archive
C7_Witness ==
    /\ cpc = "finished"
    /\ archive_created
    /\ Cardinality(DOMAIN conn) >= 2
    /\ Cardinality(DOMAIN coll) >= 2
    /\ DOMAIN conn \ Range(client_list) # {}
    /\ extra_calls = 1

\* C8: an interrupt during the connect or the collect phase ends the run with
\* status 130, and before the process ends a close has been attempted on
\* every open session (the master and every client of the client list).
C8_InterruptCloses ==
    interrupted =>
        /\ cpc = "exited" /\ c_exit = 130
        /\ Range(client_list) \subseteq closed

\* the nodes collect hands to the first pool
ConnectNodes == Range(node_list) \ {MasterAddress, m_hostname}

\* the second pool has shut down and no interrupt ended the run
PhasesDone == ~interrupted /\ cpc \in {"tally", "archive", "finished", "exited"}

\* the clients _collect leaves out: local ones when no_local is set
Skipped(c) == c \in c_local /\ config_no_local

\* C22: a profile with run_extra_cmd has it invoked exactly once in a run
\* that completes its phases, after every connect and collect task has
\* finished and before the sessions are closed and the archive is built,
\* and its files are fetched through the master session only; a profile
\* without it never has it invoked.
C22_ExtraOnce ==
    /\ extra_calls <= 1
    /\ ~has_extra => (extra_calls = 0 /\ extra_via = {})
    /\ extra_calls > 0 =>
          /\ conn_queue = <<>> /\ \A n \in DOMAIN conn : conn[n] = "done"
          /\ coll_queue = <<>> /\ \A c \in DOMAIN coll : coll[c] = "done"
    /\ (has_extra /\ PhasesDone) => extra_calls = 1
    /\ cpc \in {"start", "connect", "collect", "tally"} =>
          (Range(client_list) \cap closed = {} /\ ~archive_created)
    /\ extra_via \subseteq {MasterAddress}

\* a run with several clients finished, the extra command ran once and its
\* files were fetched from the master
C22_Witness ==
    /\ cpc = "finished" /\ has_extra
    /\ extra_calls = 1
    /\ extra_via = {MasterAddress}
    /\ Len(client_list) >= 2
    /\ Range(client_list) \subseteq closed

\* C24: after the connect phase, in every interleaving, the client list is
\* the master (first, if its session is connected) followed by one entry
\* for each node other than the master whose session came up connected; a
\* node that was refused or whose SosNode() raised is not in it; every such
\* node was attempted exactly once, and a failed attempt ends neither the
\* run nor the other attempts.
C24_ClientList ==
    /\ \A n \in DOMAIN attempts : attempts[n] <= 1
    /\ (cpc = "exited" /\ ~interrupted) =>
          \A n \in DOMAIN attempts : attempts[n] = 1
    /\ (~interrupted /\ cpc \notin {"start", "connect"}) =>
          LET m == IF master_connected THEN <<MasterAddress>> ELSE <<>> IN
          /\ DOMAIN attempts = ConnectNodes
          /\ \A n \in ConnectNodes : attempts[n] = 1
          /\ established \subseteq ConnectNodes
          /\ SubSeq(client_list, 1, Len(m)) = m
          /\ Range(SubSeq(client_list, Len(m) + 1, Len(client_list)))
                 = established
          /\ Len(client_list) = Len(m) + Cardinality(established)

\* the master is connected, of two nodes one came up connected and one did
\* not, and the collect phase has begun with the master and that one node
C24_Witness ==
    /\ cpc = "collect"
    /\ master_connected
    /\ Cardinality(ConnectNodes) = 2
    /\ Cardinality(established) = 1
    /\ Len(client_list) = 2
    /\ client_list[1] = MasterAddress

\* C25: in the collect phase a client whose sosreport() raises or fails
\* does not keep the phase from running on the other clients and from
\* completing, and adds nothing to the retrieved counter.
C25_Isolation ==
    PhasesDone =>
        /\ \A c \in Range(client_list) :
              coll[c] = "done" /\ (Skipped(c) \/ sos_calls[c] = 1)
        /\ retrieved <= Cardinality(retrieved_flag)
        /\ (cpc = "exited" /\ retrieved > 0) => c_exit = ExitCode("archive")

\* sosreport() ran on two clients, failed on one and succeeded on the
\* other, and the run went on to the archive with one report counted
C25_Witness ==
    /\ PhasesDone /\ cpc = "finished"
    /\ retrieved = 1
    /\ \E c1, c2 \in Range(client_list) :
          /\ c1 \notin retrieved_flag /\ sos_calls[c1] = 1
          /\ c2 \in retrieved_flag /\ sos_calls[c2] = 1

\* C26: sosreport() is never called on a client flagged local while
\* no_local is set, and such a client never adds to the retrieved counter;
\* on every other client of the client list (a local one with no_local
\* unset included) it is called exactly once.
C26_NoLocal ==
    /\ \A c \in DOMAIN sos_calls :
          /\ sos_calls[c] <= 1
          /\ Skipped(c) =>
                (sos_calls[c] = 0 /\ c \notin retrieved_flag /\ coll[c] # "loaded")
    /\ PhasesDone =>
          \A c \in Range(client_list) : ~Skipped(c) => sos_calls[c] = 1

\* no_local is set, the local client was skipped and another client was
\* collected and counted
C26_Witness ==
    /\ PhasesDone /\ config_no_local
    /\ retrieved = 1
    /\ \E c1, c2 \in Range(client_list) :
          /\ Skipped(c1) /\ sos_calls[c1] = 0
          /\ ~Skipped(c2) /\ sos_calls[c2] = 1 /\ c2 \in retrieved_flag

\* C27: at the tally report_num is the number of clients sosreport() was
\* attempted on, so that 0 <= retrieved <= report_num in every run, a run
\* whose localhost master session is not connected included.  (The
\* localhost session, when it is in the client list, is flagged local.)
C27_Targeted ==
    (PhasesDone /\ (Localhost \in Range(client_list) => Localhost \in c_local))
        => /\ report_num =
                Cardinality({c \in Range(client_list) : sos_calls[c] = 1})
           /\ 0 <= retrieved /\ retrieved <= report_num

\* the fatal outcome a finished collect ended with
Outcome ==
    IF cpc # "exited" THEN "none"
    ELSE IF interrupted THEN "cancel"
    ELSE IF retrieved > 0 THEN "archive"
    ELSE "none_retrieved"

\* C17: the process ends with status 0 only after a completed run with at
\* least one report retrieved, and a run ended by a fatal outcome (user
\* cancellation, configuration error, nothing retrieved, archive failure)
\* ends with a non-zero status that none of the other three outcomes uses.
C17_ExitStatus ==
    /\ c_exit = 0 => (cpc = "finished" /\ archive_created /\ retrieved >= 1)
    /\ \A o \in FatalOutcomes :
          Outcome = o =>
              /\ c_exit # 0
              /\ \A p \in FatalOutcomes \ {o} : c_exit # ExitCode(p)

\* both phases are over and the tally has been acted on
TallyDone == ~interrupted /\ cpc \in {"archive", "finished", "exited"}

\* C18: a run whose two phases completed fails iff the retrieved counter is
\* 0: with 0 the process ends with a failure status and no archive is
\* written, with more than 0 the archive step is entered.
C18_ZeroRetrievedFails ==
    TallyDone =>
        IF retrieved = 0
          THEN cpc = "exited" /\ c_exit # 0 /\ ~archive_created
          ELSE cpc \in {"archive", "finished"} \/ c_exit = ExitCode("archive")

\* clients were connected and sosreport() ran on them without a fatal
\* error, nothing was retrieved, and the run ended in failure
C18_Witness ==
    /\ TallyDone
    /\ retrieved = 0
    /\ Len(client_list) >= 2
    /\ \A c \in DOMAIN sos_calls : sos_calls[c] = 1
    /\ cpc = "exited" /\ c_exit = 1 /\ ~archive_created

----------------------------------------------------------------------------
(* SosCollector._parse_options, _validate_option and Cluster.get_option    *)

UpperAZ == <<"A", "B", "C", "D", "E", "F", "G", "H", "I", "J", "K", "L", "M",
             "N", "O", "P", "Q", "R", "S", "T", "U", "V", "W", "X", "Y", "Z">>
LowerAZ == <<"a", "b", "c", "d", "e", "f", "g", "h", "i", "j", "k", "l", "m",
             "n", "o", "p", "q", "r", "s", "t", "u", "v", "w", "x", "y", "z">>

\* str.lower()
LowerChar(c) ==
    IF \E i \in 1..Len(UpperAZ) : UpperAZ[i] = c
      THEN LowerAZ[CHOOSE i \in 1..Len(UpperAZ) : UpperAZ[i] = c]
      ELSE c

Lower(s) == [i \in 1..Len(s) |-> LowerChar(s[i])]

\* Python values: their type and, for a str, its characters
StrVal(s)  == [type |-> "str", repr |-> s]
IntVal(s)  == [type |-> "int", repr |-> s]
BoolTrue   == [type |-> "bool", repr |-> <<"T", "r", "u", "e">>]
BoolFalse  == [type |-> "bool", repr |-> <<"F", "a", "l", "s", "e">>]

TrueTokens  == {<<"t", "r", "u", "e">>, <<"o", "n">>}
FalseTokens == {<<"f", "a", "l", "s", "e">>, <<"o", "f", "f">>}

\* the registered profiles by their key in self.clusters, each with the
\* names in its cluster_type (its class name and direct bases) and its
\* option_list.  The class of "ovirt" is named as its key is, the class of
\* "kube" is not (its key comes from cluster_name); class rhv extends class
\* ovirt.
ProfileKeys == {"ovirt", "kube", "rhv"}

ClusterType(k) ==
    CASE k = "ovirt" -> {"ovirt"}
      [] k = "rhv"   -> {"rhv", "ovirt"}
      [] OTHER       -> {"Kubernetes"}

OptionList(k) ==
    CASE k = "ovirt" ->
           << [name |-> "no-database", opt_type |-> "bool", value |-> BoolFalse],
              [name |-> "label", opt_type |-> "str", value |-> StrVal(<<>>)] >>
      [] k = "rhv" ->
           << [name |-> "label", opt_type |-> "str", value |-> StrVal(<<>>)] >>
      [] OTHER ->
           << [name |-> "no-database", opt_type |-> "bool", value |-> BoolFalse] >>

\* what a user may write on the command line as cluster.name=value
CliClusters == ProfileKeys \cup {"nope"}
CliNames    == {"no-database", "label", "bogus"}
CliValues   == {StrVal(<<"O", "N">>), StrVal(<<"f", "a", "l", "s", "e">>),
                StrVal(<<"y", "e", "s">>), IntVal(<<"5">>)}
CliOptions  ==
    {[cluster |-> c, name |-> n, opt_type |-> v.type, value |-> v] :
        c \in CliClusters, n \in CliNames, v \in CliValues}
\* the most overrides on one command line
MaxOptions == 2

\* _validate_option(default, cli): the value to store, or the way it ends
ValidateOption(default, cli) ==
    IF default.opt_type # "bool"
      THEN IF default.opt_type # cli.opt_type
             THEN [status |-> "exit", value |-> cli.value]
             ELSE [status |-> "ok", value |-> cli.value]
    \* cli.value.lower() of a value that is no str raises AttributeError
    ELSE IF cli.value.type # "str"
      THEN [status |-> "raise", value |-> cli.value]
    ELSE IF Lower(cli.value.repr) \notin TrueTokens \cup FalseTokens
      THEN [status |-> "exit", value |-> cli.value]
    ELSE IF Lower(cli.value.repr) \in TrueTokens
      THEN [status |-> "ok", value |-> BoolTrue]
      ELSE [status |-> "ok", value |-> BoolFalse]

\* the inner loop of _parse_options over the options of the named profile,
\* from position j on
RECURSIVE ParseInner(_, _, _, _)
ParseInner(lst, j, opt, match) ==
    IF j > Len(lst) THEN [status |-> "ok", lst |-> lst, match |-> match]
    ELSE IF opt.name # lst[j].name THEN ParseInner(lst, j + 1, opt, match)
    ELSE LET v == ValidateOption(lst[j], opt)
         IN  IF v.status # "ok"
               THEN [status |-> v.status, lst |-> lst, match |-> TRUE]
               ELSE ParseInner([lst EXCEPT ![j].value = v.value], j + 1, opt,
                               TRUE)

\* a get_option that takes the first override of the name, whatever cluster
\* it is scoped to
GetOptionAnyCluster(k, option) ==
    LET cli == {i \in 1..Len(cluster_options) :
                    cluster_options[i].name = option}
        own == {j \in 1..Len(options[k]) : options[k][j].name = option}
        First(S) == CHOOSE i \in S : \A l \in S : i <= l
    IN  IF cli # {} THEN cluster_options[First(cli)].value
        ELSE IF own # {} THEN options[k][First(own)].value
        ELSE BoolFalse

\* get_option(option) of profile k: the CLI before the defaults
GetOption(k, option) ==
    LET cli == {i \in 1..Len(cluster_options) :
                    /\ cluster_options[i].name = option
                    /\ cluster_options[i].cluster \in ClusterType(k)}
        own == {j \in 1..Len(options[k]) : options[k][j].name = option}
        First(S) == CHOOSE i \in S : \A l \in S : i <= l
    IN  IF cli # {} THEN cluster_options[First(cli)].value
        ELSE IF own # {} THEN options[k][First(own)].value
        ELSE BoolFalse

\* a run that starts prep whatever is left of the override list
ParsedNone(i, opts) == TRUE

\* the loop of _parse_options has gone through every override
ParsedAll(i, opts) == i > Len(opts)

InitOptions ==
    /\ cluster_options \in UNION {[1..n -> CliOptions] : n \in 0..MaxOptions}
    /\ options = [k \in ProfileKeys |-> OptionList(k)]
    /\ oi = 1
    /\ opc = "parse"
    /\ o_exit = -1
    /\ sessions = 0
    /\ detected = FALSE
    /\ observed = NotAsked
    /\ ResolveIdle
    /\ NodesIdle
    /\ CollectIdle
    /\ CleanupIdle

\* one iteration of the outer loop of _parse_options
ParseOption ==
    /\ opc = "parse"
    /\ oi <= Len(cluster_options)
    /\ LET opt == cluster_options[oi] IN
       IF opt.cluster \notin ProfileKeys
         \* self.clusters[opt.cluster] raises KeyError, which __init__ re-raises
         THEN opc' = "crashed" /\ UNCHANGED <<options, oi, o_exit>>
         ELSE LET r == ParseInner(options[opt.cluster], 1, opt, FALSE) IN
              IF r.status = "raise"
                THEN opc' = "crashed" /\ UNCHANGED <<options, oi, o_exit>>
              ELSE IF r.status = "exit" \/ ~r.match
                THEN /\ opc' = "exited"
                     /\ o_exit' = ExitCode("config")
                     /\ UNCHANGED <<options, oi>>
                ELSE /\ options' = [options EXCEPT ![opt.cluster] = r.lst]
                     /\ oi' = oi + 1
                     /\ UNCHANGED <<opc, o_exit>>
    /\ UNCHANGED <<cluster_options, sessions, detected, observed>>
    /\ UNCHANGED <<rvars, nvars, cvars, kvars>>

\* _parse_options returns and __init__ calls prep
ParseDone ==
    /\ opc = "parse"
    /\ ParsedAll(oi, cluster_options)
    /\ opc' = "prep"
    /\ UNCHANGED <<cluster_options, options, oi, o_exit, sessions, detected,
                   observed>>
    /\ UNCHANGED <<rvars, nvars, cvars, kvars>>

\* prep: connect_to_master(), or SosNode('localhost')
PrepMaster ==
    /\ opc = "prep"
    /\ sessions' = sessions + 1
    /\ opc' = "detect"
    /\ UNCHANGED <<cluster_options, options, oi, o_exit, detected, observed>>
    /\ UNCHANGED <<rvars, nvars, cvars, kvars>>

\* prep: the profile is taken from cluster_type or determine_cluster()
PrepDetect ==
    /\ opc = "detect"
    /\ detected' = TRUE
    /\ opc' = "setup"
    /\ UNCHANGED <<cluster_options, options, oi, o_exit, sessions, observed>>
    /\ UNCHANGED <<rvars, nvars, cvars, kvars>>

\* the chosen profile asks for an option, one it declares or any other name
ProfileGetOption ==
    /\ opc = "setup"
    /\ \E k \in ProfileKeys :
         \E option \in CliNames :
            observed' = [asked |-> TRUE, profile |-> k, name |-> option,
                         value |-> GetOption(k, option)]
    /\ opc' = "ready"
    /\ UNCHANGED <<cluster_options, options, oi, o_exit, sessions, detected>>
    /\ UNCHANGED <<rvars, nvars, cvars, kvars>>

NextOptions ==
    \/ ParseOption
    \/ ParseDone
    \/ PrepMaster
    \/ PrepDetect
    \/ ProfileGetOption

SpecOptions == InitOptions /\ [][NextOptions]_vars

----------------------------------------------------------------------------
(* Claims about the cluster options                                        *)

\* the option profile k declares under the name n, if any
Declared(k, n) == {j \in 1..Len(OptionList(k)) : OptionList(k)[j].name = n}

\* an override the registered profiles accept
ValidOverride(opt) ==
    /\ opt.cluster \in ProfileKeys
    /\ Declared(opt.cluster, opt.name) # {}
    /\ \A j \in Declared(opt.cluster, opt.name) :
          LET d == OptionList(opt.cluster)[j] IN
          IF d.opt_type = "bool"
            THEN /\ opt.value.type = "str"
                 /\ Lower(opt.value.repr) \in TrueTokens \cup FalseTokens
            ELSE d.opt_type = opt.opt_type

C20_BoolNormalized ==
    (opc = "ready" /\ observed.asked) =>
        LET over == {i \in 1..Len(cluster_options) :
                        /\ cluster_options[i].cluster = observed.profile
                        /\ cluster_options[i].name = observed.name}
            bool == \A j \in Declared(observed.profile, observed.name) :
                        OptionList(observed.profile)[j].opt_type = "bool"
        IN  (bool /\ over # {}) =>
                /\ observed.value.type = "bool"
                /\ \A i \in over :
                      Cardinality(over) = 1 =>
                          observed.value =
                              IF Lower(cluster_options[i].value.repr)
                                     \in TrueTokens
                                THEN BoolTrue ELSE BoolFalse

----------------------------------------------------------------------------
(* SosCollector.create_cluster_archive, create_sos_archive and cleanup      *)

\* the pattern cleanup hands to re.search
CleanupPattern == <<"*", "s", "o", "s", "r", "e", "p", "o", "r", "t", "-", "*", "t", "a", "r", "*">>

\* file names a working directory may hold
SosTar == <<"s", "o", "s", "r", "e", "p", "o", "r", "t", "-", "a", ".", "t", "a", "r">>
SosTarMd5 == <<"s", "o", "s", "r", "e", "p", "o", "r", "t", "-", "a", ".", "t", "a", "r", ".", "m", "d", "5">>
HostSosTar == <<"h", "-", "s", "o", "s", "r", "e", "p", "o", "r", "t", "-", "b", ".", "t", "a", "r">>
LogName == <<"s", "o", "s", ".", "l", "o", "g">>
NotesName == <<"n", "o", "t", "e", "s">>
PlainTar == <<"x", ".", "t", "a", "r">>

FileNames == {SosTar, SosTarMd5, HostSosTar, LogName, NotesName, PlainTar}

\* the most files the working directory holds
MaxFiles == 3

\* re.compile(p) for patterns of literals and '*': a '*' with nothing
\* before it to repeat raises re.error ("nothing to repeat")
ReCompiles(p) ==
    /\ (p # <<>> => Head(p) # "*")
    /\ \A i \in 1..(Len(p) - 1) : ~(p[i] = "*" /\ p[i + 1] = "*")

\* the compiled pattern p matches at the start of s
RECURSIVE ReMatchAt(_, _)
ReMatchAt(p, s) ==
    IF p = <<>> THEN TRUE
    ELSE IF Len(p) >= 2 /\ p[2] = "*"
      THEN \/ ReMatchAt(Tail(Tail(p)), s)
           \/ (s # <<>> /\ Head(s) = Head(p) /\ ReMatchAt(p, Tail(s)))
    ELSE s # <<>> /\ Head(s) = Head(p) /\ ReMatchAt(Tail(p), Tail(s))

\* re.search(p, s): "raise" when p does not compile, else whether p
\* matches somewhere in s
ReSearch(p, s) ==
    IF ~ReCompiles(p) THEN "raise"
    ELSE IF \E i \in 1..(Len(s) + 1) : ReMatchAt(p, SubSeq(s, i, Len(s)))
      THEN "match"
      ELSE "none"

InitCleanup ==
    /\ ResolveIdle
    /\ NodesIdle
    /\ CollectIdle
    /\ OptionsIdle
    /\ tmp_dir_created \in BOOLEAN
    /\ dir_exists = TRUE
    /\ tmp_dir \in {F \in SUBSET FileNames : Cardinality(F) <= MaxFiles}
    /\ archived_dir = {}
    /\ listing = <<>>
    /\ archive = FALSE
    /\ kpc = "start"
    /\ k_exit = -1

\* create_sos_archive: the tar file is written in out_dir from the files
\* of tmp_dir, or tarfile raises and the run ends with _exit(msg, 2)
CreateSosArchive ==
    /\ kpc = "start"
    /\ archived_dir' = tmp_dir
    /\ \E ok \in BOOLEAN :
         IF ok
           THEN /\ archive' = TRUE
                /\ kpc' = "archived"
                /\ UNCHANGED k_exit
           ELSE /\ kpc' = "exited"
                /\ k_exit' = ExitCode("archive")
                /\ UNCHANGED archive
    /\ UNCHANGED <<tmp_dir_created, dir_exists, tmp_dir, listing>>
    /\ UNCHANGED <<rvars, nvars, cvars, ovars>>

\* cleanup, first branch: delete_tmp_dir() removes the directory this run
\* created
DeleteTmpDir ==
    /\ kpc = "archived"
    /\ archive
    /\ tmp_dir_created
    /\ dir_exists' = FALSE
    /\ tmp_dir' = {}
    /\ kpc' = "done"
    /\ UNCHANGED <<tmp_dir_created, archived_dir, listing, archive, k_exit>>
    /\ UNCHANGED <<rvars, nvars, cvars, ovars>>

\* cleanup, second branch: os.listdir(tmp_dir), in arbitrary order
CleanupList ==
    /\ kpc = "archived"
    /\ archive
    /\ ~tmp_dir_created
    /\ \E l \in Perms(tmp_dir) : listing' = l
    /\ kpc' = "scan"
    /\ UNCHANGED <<tmp_dir_created, dir_exists, tmp_dir, archived_dir,
                   archive, k_exit>>
    /\ UNCHANGED <<rvars, nvars, cvars, ovars>>

\* one iteration of cleanup's loop: re.search on the next name, os.remove
\* if it matches; an exception of re.search leaves cleanup unhandled
CleanupStep ==
    /\ kpc = "scan"
    /\ listing # <<>>
    /\ \E found \in {ReSearch(CleanupPattern, Head(listing))} :
         IF found = "raise"
           THEN /\ kpc' = "raised"
                /\ UNCHANGED <<tmp_dir, listing>>
           ELSE /\ tmp_dir' = IF found = "match"
                                THEN tmp_dir \ {Head(listing)}
                                ELSE tmp_dir
                /\ listing' = Tail(listing)
                /\ UNCHANGED kpc
    /\ UNCHANGED <<tmp_dir_created, dir_exists, archived_dir, archive, k_exit>>
    /\ UNCHANGED <<rvars, nvars, cvars, ovars>>

\* the loop of cleanup has run out of names
CleanupEnd ==
    /\ kpc = "scan"
    /\ listing = <<>>
    /\ kpc' = "done"
    /\ UNCHANGED <<tmp_dir_created, dir_exists, tmp_dir, archived_dir, listing,
                   archive, k_exit>>
    /\ UNCHANGED <<rvars, nvars, cvars, ovars>>

NextCleanup ==
    \/ CreateSosArchive
    \/ DeleteTmpDir
    \/ CleanupList
    \/ CleanupStep
    \/ CleanupEnd

SpecCleanup == InitCleanup /\ [][NextCleanup]_vars

\* the files whose names have the report-bundle form *sosreport-*tar*
Bundles(F) == {f \in F : GlobMatch(CleanupPattern, f)}

\* C29: after the archive is written, cleanup removes a working directory
\* this run created; in a user-supplied one it runs to its end without an
\* error and removes exactly the files named like a report bundle, every
\* other file staying.  After a failed archive cleanup is not run and the
\* directory keeps its contents.
C29_Cleanup ==
    /\ kpc # "raised"
    /\ (kpc = "done" /\ tmp_dir_created) => (~dir_exists /\ tmp_dir = {})
    /\ (kpc = "done" /\ ~tmp_dir_created) =>
          (dir_exists /\ tmp_dir = archived_dir \ Bundles(archived_dir))
    /\ kpc = "exited" =>
          (dir_exists /\ tmp_dir = archived_dir /\ k_exit = ExitCode("archive"))

====
